---- MODULE Spec2Model ----
(***************************************************************************)
(* The terminal interaction controller of src/server.ts (the "raw TUI"):   *)
(* the session state tuiState, the key dispatcher handleKeyPress with its  *)
(* per-view handlers, the two fire-and-forget timers (showMessage,         *)
(* showStats), the resize handler, and the customer/product tables the     *)
(* controller reads and writes through customerOps / productOps.           *)
(*                                                                         *)
(* Text is a sequence of one-character strings.  A JavaScript value is a   *)
(* record [k, s, n]: k is the kind ("str", "num", "null", "undef", "nan",  *)
(* "id"), s the text of a string, n the number of a number or of an id.    *)
(***************************************************************************)
EXTENDS Integers, Sequences, FiniteSets, TLC

(* ---------------------------- bounds ----------------------------------- *)

\* longest text the edit buffer may grow to by typing
MaxBuf == 2
\* keystrokes that change the edit buffer (a character appended or
\* removed), per session
MaxEdits == 1
\* keystrokes that change the search text, per session, where the session
\* is about searching
MaxSearch == 2
\* confirmed saves and deletes (Store calls), per session
MaxCalls == 1
\* message timers pending at the same time
MaxMessages == 1
\* stats timers pending at the same time
MaxStats == 1

(* ---------------------------- values ----------------------------------- *)

Undef == [k |-> "undef", s |-> <<>>, n |-> 0]
Null == [k |-> "null", s |-> <<>>, n |-> 0]
NaN == [k |-> "nan", s |-> <<>>, n |-> 0]
Str(t) == [k |-> "str", s |-> t, n |-> 0]
Num(i) == [k |-> "num", s |-> <<>>, n |-> i]
IdVal(i) == [k |-> "id", s |-> <<>>, n |-> i]

\* editingId: undefined
NoId == 0

\* JavaScript truthiness: undefined, null, NaN, '' and 0 are falsy
Falsy(v) ==
  \/ v.k \in {"undef", "null", "nan"}
  \/ (v.k = "str" /\ v.s = <<>>)
  \/ (v.k = "num" /\ v.n = 0)

\* a || b
Or(a, b) == IF Falsy(a) THEN b ELSE a

\* obj[field] of a JavaScript object: undefined when the key is missing
Get(obj, field) == IF field \in DOMAIN obj THEN obj[field] ELSE Undef

\* obj[field] = v
Put(obj, field, v) ==
  [x \in (DOMAIN obj) \cup {field} |-> IF x = field THEN v ELSE obj[x]]

\* {}
EmptyObj == [x \in {} |-> Undef]

Digits == {"0", "1", "2", "3", "4", "5", "6", "7", "8", "9"}

DigitVal(c) ==
  CASE c = "0" -> 0 [] c = "1" -> 1 [] c = "2" -> 2 [] c = "3" -> 3
    [] c = "4" -> 4 [] c = "5" -> 5 [] c = "6" -> 6 [] c = "7" -> 7
    [] c = "8" -> 8 [] c = "9" -> 9

DigitChar(d) ==
  CASE d = 0 -> "0" [] d = 1 -> "1" [] d = 2 -> "2" [] d = 3 -> "3"
    [] d = 4 -> "4" [] d = 5 -> "5" [] d = 6 -> "6" [] d = 7 -> "7"
    [] d = 8 -> "8" [] d = 9 -> "9"

\* the longest prefix of t made of decimal digits
RECURSIVE DigitPrefix(_)
DigitPrefix(t) ==
  IF t = <<>> \/ Head(t) \notin Digits THEN <<>>
  ELSE <<Head(t)>> \o DigitPrefix(Tail(t))

\* the number a sequence of decimal digits denotes
RECURSIVE DigitsToNat(_)
DigitsToNat(t) ==
  IF t = <<>> THEN 0
  ELSE 10 * DigitsToNat(SubSeq(t, 1, Len(t) - 1)) + DigitVal(t[Len(t)])

\* parseFloat(text), on text made of decimal digits and letters other than
\* the exponent and "Infinity" letters: the number of the longest digit
\* prefix, NaN when the text does not start with a digit
parseFloat(t) ==
  IF DigitPrefix(t) = <<>> THEN NaN ELSE Num(DigitsToNat(DigitPrefix(t)))

\* the decimal digits of a natural number
RECURSIVE NatToText(_)
NatToText(i) ==
  IF i < 10 THEN <<DigitChar(i)>>
  ELSE NatToText(i \div 10) \o <<DigitChar(i % 10)>>

\* String(v)
String(v) ==
  CASE v.k = "str" -> v.s
    [] v.k = "num" -> NatToText(v.n)
    [] v.k = "id" -> <<"#">> \o NatToText(v.n)
    [] v.k = "null" -> <<"n", "u", "l", "l">>
    [] v.k = "nan" -> <<"N", "a", "N">>
    [] OTHER -> <<"u", "n", "d", "e", "f", "i", "n", "e", "d">>

\* text.toLowerCase(), one character
LowerChar(c) ==
  CASE c = "A" -> "a" [] c = "D" -> "d" [] c = "Z" -> "z" [] OTHER -> c

RECURSIVE toLowerCase(_)
toLowerCase(t) ==
  IF t = <<>> THEN <<>> ELSE <<LowerChar(Head(t))>> \o toLowerCase(Tail(t))

\* hay.includes(needle)
includes(hay, needle) ==
  \E i \in 0..(Len(hay) - Len(needle)) :
    SubSeq(hay, i + 1, i + Len(needle)) = needle

(* ---------------------------- form definitions ------------------------- *)

customerFormSteps ==
  << [field |-> "CustomerName", required |-> TRUE, type |-> "text"],
     [field |-> "CustomerPhone", required |-> FALSE, type |-> "text"],
     [field |-> "CustomerAddress", required |-> FALSE, type |-> "text"],
     [field |-> "CustomerTCKN", required |-> FALSE, type |-> "text"],
     [field |-> "CustomerVD", required |-> FALSE, type |-> "text"],
     [field |-> "CustomerDebt", required |-> FALSE, type |-> "number"],
     [field |-> "CustomerBalance", required |-> FALSE, type |-> "number"] >>

productFormSteps ==
  << [field |-> "ProductCode", required |-> TRUE, type |-> "text"],
     [field |-> "Details", required |-> FALSE, type |-> "text"],
     [field |-> "Barcode", required |-> FALSE, type |-> "text"],
     [field |-> "Price", required |-> TRUE, type |-> "number"],
     [field |-> "Category", required |-> FALSE, type |-> "text"],
     [field |-> "ActualInventory", required |-> FALSE, type |-> "number"],
     [field |-> "ReservedInventory", required |-> FALSE, type |-> "number"],
     [field |-> "AwaitingInventory", required |-> FALSE, type |-> "number"] >>

\* steps[formStep] with the code's zero-based index
StepAt(steps, i) == steps[i + 1]

(* ---------------------------- the Store -------------------------------- *)

\* The columns the controller reads or writes, from the CREATE TABLE
\* statements: the column affinity, NOT NULL and UNIQUE.  The JSON list
\* columns and created_at are never written by the form and are left out.
customerColumns ==
  << [name |-> "CustomerName", affinity |-> "TEXT", notNull |-> TRUE, unique |-> FALSE],
     [name |-> "CustomerPhone", affinity |-> "TEXT", notNull |-> FALSE, unique |-> FALSE],
     [name |-> "CustomerAddress", affinity |-> "TEXT", notNull |-> FALSE, unique |-> FALSE],
     [name |-> "CustomerTCKN", affinity |-> "TEXT", notNull |-> FALSE, unique |-> FALSE],
     [name |-> "CustomerVD", affinity |-> "TEXT", notNull |-> FALSE, unique |-> FALSE],
     [name |-> "CustomerDebt", affinity |-> "REAL", notNull |-> FALSE, unique |-> FALSE],
     [name |-> "CustomerBalance", affinity |-> "REAL", notNull |-> FALSE, unique |-> FALSE] >>

productColumns ==
  << [name |-> "ProductCode", affinity |-> "TEXT", notNull |-> TRUE, unique |-> TRUE],
     [name |-> "Details", affinity |-> "TEXT", notNull |-> FALSE, unique |-> FALSE],
     [name |-> "Barcode", affinity |-> "TEXT", notNull |-> FALSE, unique |-> FALSE],
     [name |-> "Price", affinity |-> "REAL", notNull |-> TRUE, unique |-> FALSE],
     [name |-> "Category", affinity |-> "TEXT", notNull |-> FALSE, unique |-> FALSE],
     [name |-> "ActualInventory", affinity |-> "INTEGER", notNull |-> FALSE, unique |-> FALSE],
     [name |-> "ReservedInventory", affinity |-> "INTEGER", notNull |-> FALSE, unique |-> FALSE],
     [name |-> "AwaitingInventory", affinity |-> "INTEGER", notNull |-> FALSE, unique |-> FALSE] >>

ColumnNames(columns) == {columns[i].name : i \in 1..Len(columns)}

\* the value a column stores for a bound parameter: undefined binds NULL, a
\* TEXT column keeps a number as its text, a numeric column keeps text that
\* is a decimal numeral as the number
Bind(affinity, v) ==
  IF v.k \in {"undef", "null", "nan"} THEN Null
  ELSE IF affinity = "TEXT" /\ v.k = "num" THEN Str(NatToText(v.n))
  ELSE IF affinity # "TEXT" /\ v.k = "str" /\ v.s # <<>>
          /\ DigitPrefix(v.s) = v.s THEN Num(DigitsToNat(v.s))
  ELSE v

\* the row an INSERT or UPDATE writes, from the parameter of each column
MakeRow(columns, id, params) ==
  [c \in ColumnNames(columns) \cup {"id"} |->
     IF c = "id" THEN IdVal(id)
     ELSE LET col == CHOOSE x \in {columns[i] : i \in 1..Len(columns)} : x.name = c
          IN Bind(col.affinity, params[c])]

\* the constraints of the table reject the row (the statement throws)
Rejects(columns, rows, row) ==
  \E i \in 1..Len(columns) :
    \/ columns[i].notNull /\ row[columns[i].name].k = "null"
    \/ /\ columns[i].unique
       /\ \E j \in 1..Len(rows) :
            /\ rows[j]["id"] # row["id"]
            /\ rows[j][columns[i].name] = row[columns[i].name]

\* getById(id): the row, or Undef when there is none (null / undefined)
getById(rows, id) ==
  IF \E j \in 1..Len(rows) : rows[j]["id"].n = id
  THEN rows[CHOOSE j \in 1..Len(rows) : rows[j]["id"].n = id]
  ELSE Undef

HasRow(rows, id) == \E j \in 1..Len(rows) : rows[j]["id"].n = id

\* rows with the row of this id replaced
RECURSIVE ReplaceRow(_, _, _)
ReplaceRow(rows, id, row) ==
  IF rows = <<>> THEN <<>>
  ELSE <<IF Head(rows)["id"].n = id THEN row ELSE Head(rows)>>
         \o ReplaceRow(Tail(rows), id, row)

\* create(fields): INSERT with a fresh id; the result says whether the
\* statement threw and gives the table afterwards
opsCreate(columns, rows, id, fields) ==
  LET params == [c \in ColumnNames(columns) |-> Get(fields, c)]
      row == MakeRow(columns, id, params)
  IN IF Rejects(columns, rows, row)
     THEN [threw |-> TRUE, found |-> FALSE, rows |-> rows]
     ELSE [threw |-> FALSE, found |-> TRUE, rows |-> Append(rows, row)]

\* update(id, updates): null when the row is missing, otherwise UPDATE with
\* updates.X || current.X for every column
opsUpdate(columns, rows, id, updates) ==
  IF ~HasRow(rows, id) THEN [threw |-> FALSE, found |-> FALSE, rows |-> rows]
  ELSE LET current == getById(rows, id)
           params == [c \in ColumnNames(columns) |->
                        Or(Get(updates, c), current[c])]
           row == MakeRow(columns, id, params)
       IN IF Rejects(columns, rows, row)
          THEN [threw |-> TRUE, found |-> TRUE, rows |-> rows]
          ELSE [threw |-> FALSE, found |-> TRUE,
                rows |-> ReplaceRow(rows, id, row)]

\* delete(id): DELETE, reporting whether a row went
opsDelete(rows, id) ==
  LET Keep(r) == r["id"].n # id
  IN [threw |-> FALSE, found |-> HasRow(rows, id), rows |-> SelectSeq(rows, Keep)]

\* Fault: the record's text is compared as it is written.
filterRecordsCaseSensitive(records, searchTerm, isCustomer) ==
  IF searchTerm = <<>> THEN records
  ELSE LET term == toLowerCase(searchTerm)
           Has(record, field) ==
             includes(Or(record[field], Str(<<>>)).s, term)
           Match(record) ==
             IF isCustomer
             THEN \/ Has(record, "CustomerName")
                  \/ Has(record, "CustomerPhone")
                  \/ Has(record, "CustomerTCKN")
             ELSE \/ Has(record, "ProductCode")
                  \/ Has(record, "Details")
                  \/ Has(record, "Barcode")
       IN SelectSeq(records, Match)

\* filterRecords(records, searchTerm, isCustomer)
filterRecords(records, searchTerm, isCustomer) ==
  IF searchTerm = <<>> THEN records
  ELSE LET term == toLowerCase(searchTerm)
           Has(record, field) ==
             includes(toLowerCase(Or(record[field], Str(<<>>)).s), term)
           Match(record) ==
             IF isCustomer
             THEN \/ Has(record, "CustomerName")
                  \/ Has(record, "CustomerPhone")
                  \/ Has(record, "CustomerTCKN")
             ELSE \/ Has(record, "ProductCode")
                  \/ Has(record, "Details")
                  \/ Has(record, "Barcode")
       IN SelectSeq(records, Match)

(* ---------------------------- keys -------------------------------------- *)

\* printable characters the user types
Chars == {"A", "a", "4"}

\* the characters of the names typed in a scripted session
NameChars == {"A", "d", "a"}

\* what handleKeyPress receives: the arrows (\x1b[A..D), Enter (\r or \n),
\* Tab, Esc, the two Backspace bytes Del (\x7f) and Bs (\b), the control
\* keys, a printable character, or any other sequence
Keys ==
  {"Up", "Down", "Left", "Right", "Enter", "Tab", "Esc", "Del", "Bs",
   "CtrlC", "CtrlS", "CtrlD", "CtrlN", "Other"} \cup Chars

\* key.length === 1 && key >= ' ' : \x7f passes, \b and \t do not
Printable(key) == key \in Chars \cup NameChars \cup {"Del"}

\* key === '\x7f' || key === '\b'
Backspace(key) == key \in {"Del", "Bs"}

IsForm(v) == v \in {"customer-form", "product-form"}
IsList(v) == v \in {"customer-list", "product-list"}

\* text.slice(0, -1)
DropLast(t) == SubSeq(t, 1, Len(t) - 1)

(* ---------------------------- state ------------------------------------- *)

VARIABLES
  currentView, selectedIndex, searchFilter, isSearching, formData, formStep,
  editingId, inputBuffer, confirmIndex, previousView, confirmAction,
  customers, products, nextId, timers, status, rawMode, screen,
  call, edits, calls, limits, trip, played

\* the fields of tuiState (confirmMessage, a text shown only, is left out)
tui ==
  <<currentView, selectedIndex, searchFilter, isSearching, formData, formStep,
    editingId, inputBuffer, confirmIndex, previousView, confirmAction>>

\* the two tables and the id source
store == <<customers, products, nextId>>

\* timers: the pending setTimeout callbacks, in the order they were set.
\* status: running, exited (process.exit) or crashed (uncaught exception).
\* rawMode: the terminal is in raw mode.  screen: what was painted last.
\* call: the last Store create, update or delete the controller made, with
\* its outcome and the message shown for it.
\* edits, calls: how many buffer edits and Store calls the session has made.
\* limits: the bounds of the run, fixed by the initial condition: buffer
\* edits in forms (edits) and in the search of a list (search), whether the
\* user moves between the fields of a form (moves), Store calls (calls) and
\* pending timers of each kind (messages, stats).
quiet == <<store, timers, status, rawMode, call, calls, limits>>

ctl == <<tui, quiet, screen, edits>>

\* trip: how far the user is through one walk of a form just entered, from
\* step 0 down to the last step and back up to step 0, with nothing else
\* pressed; -1 when no such walk is under way.
\* played: the keys pressed so far in a session that follows a script;
\* empty, and left alone, in the sessions where any key may be pressed.
vars == <<ctl, trip, played>>

NoCall ==
  [op |-> "none", table |-> "none", id |-> NoId,
   threw |-> FALSE, found |-> FALSE, message |-> "none"]

\* rows the tables hold when the session starts
Customer(id, name, phone, address, tckn, vd, debt, balance) ==
  [x \in ColumnNames(customerColumns) \cup {"id"} |->
     CASE x = "id" -> IdVal(id)
       [] x = "CustomerName" -> name
       [] x = "CustomerPhone" -> phone
       [] x = "CustomerAddress" -> address
       [] x = "CustomerTCKN" -> tckn
       [] x = "CustomerVD" -> vd
       [] x = "CustomerDebt" -> debt
       [] x = "CustomerBalance" -> balance]

Product(id, code, details, barcode, price, category, actual, reserved, awaiting) ==
  [x \in ColumnNames(productColumns) \cup {"id"} |->
     CASE x = "id" -> IdVal(id)
       [] x = "ProductCode" -> code
       [] x = "Details" -> details
       [] x = "Barcode" -> barcode
       [] x = "Price" -> price
       [] x = "Category" -> category
       [] x = "ActualInventory" -> actual
       [] x = "ReservedInventory" -> reserved
       [] x = "AwaitingInventory" -> awaiting]

InitCustomers ==
  << Customer(1, Str(<<"A", "a">>), Str(<<"4", "2">>), Str(<<>>), Null,
              Str(<<"a">>), Num(0), Num(42)),
     Customer(2, Str(<<"a", "4">>), Null, Str(<<"A">>), Str(<<"2", "4">>),
              Str(<<>>), Num(4), Null) >>

InitProducts ==
  << Product(3, Str(<<"A", "4">>), Str(<<>>), Null, Num(42), Str(<<"a">>),
             Num(0), Null, Num(2)),
     Product(4, Str(<<"A">>), Str(<<"a">>), Str(<<"4">>), Num(0), Null,
             Num(4), Num(2), Num(0)) >>

\* the state startRawTui leaves: tuiState as declared, the terminal in raw
\* mode, the main menu painted, no timer pending
InitWith(lim) ==
  /\ currentView = "main"
  /\ selectedIndex = 0
  /\ searchFilter = <<>>
  /\ isSearching = FALSE
  /\ formData = EmptyObj
  /\ formStep = 0
  /\ editingId = NoId
  /\ inputBuffer = <<>>
  /\ confirmIndex = 0
  /\ previousView = "none"
  /\ confirmAction = "none"
  /\ customers = InitCustomers
  /\ products = InitProducts
  /\ nextId = 5
  /\ timers = <<>>
  /\ status = "running"
  /\ rawMode = TRUE
  /\ screen = "main"
  /\ call = NoCall
  /\ edits = 0
  /\ calls = 0
  /\ limits = lim
  /\ trip = -1
  /\ played = <<>>

\* The whole controller, the user staying on the first field of a form.
Init ==
  InitWith([edits |-> MaxEdits, search |-> MaxEdits, buf |-> MaxBuf,
            moves |-> FALSE,
            calls |-> MaxCalls, messages |-> MaxMessages, stats |-> MaxStats])

\* The user walks and edits the fields of the forms; nothing is saved or
\* deleted and no statistics are shown, so no timer is ever set.
InitWalk ==
  InitWith([edits |-> MaxEdits, search |-> MaxEdits, buf |-> MaxBuf,
            moves |-> TRUE,
            calls |-> 0, messages |-> 0, stats |-> 0])

\* The user walks the fields of the forms without typing, and saves or
\* deletes.
InitSave ==
  InitWith([edits |-> 0, search |-> 0, buf |-> MaxBuf,
            moves |-> TRUE,
            calls |-> MaxCalls, messages |-> MaxMessages, stats |-> 0])

\* The user searches the lists, opens forms on their first field, and
\* saves or deletes.
InitSearch ==
  InitWith([edits |-> 0, search |-> MaxSearch, buf |-> MaxBuf,
            moves |-> FALSE,
            calls |-> MaxCalls, messages |-> MaxMessages, stats |-> 0])

\* The user follows a script that types a name of three characters into a
\* new customer and saves it.
InitScript ==
  InitWith([edits |-> 3, search |-> 0, buf |-> 3,
            moves |-> TRUE, calls |-> MaxCalls, messages |-> MaxMessages,
            stats |-> 0])

\* The user opens forms on their first field and saves or deletes, once
\* more than in the other sessions, so that a confirmation can be repeated
\* while the message of the one before is still on screen.
InitRepeat ==
  InitWith([edits |-> 0, search |-> 0, buf |-> MaxBuf,
            moves |-> FALSE, calls |-> MaxCalls + 1,
            messages |-> MaxMessages + 1, stats |-> 0])

\* The user searches the lists and walks the fields of the forms without
\* typing into them; nothing is saved or deleted.
InitEnter ==
  InitWith([edits |-> 0, search |-> MaxSearch, buf |-> MaxBuf,
            moves |-> TRUE, calls |-> 0, messages |-> 0, stats |-> 0])

\* rows the tables can hold, for the sessions that start in a filtered list
CustomerSamples ==
  { InitCustomers[1], InitCustomers[2],
    Customer(5, Str(<<"4">>), Str(<<"a", "A">>), Null, Str(<<"A", "4">>),
             Null, Num(0), Num(0)),
    Customer(6, Str(<<"a", "a", "4">>), Null, Str(<<"4", "4">>), Null,
             Str(<<"A", "A">>), Null, Num(2)) }

ProductSamples ==
  { InitProducts[1], InitProducts[2],
    Product(7, Str(<<"4", "a">>), Str(<<"A", "A">>), Null, Num(2), Null,
            Num(0), Num(0), Num(0)),
    Product(8, Str(<<"a", "a", "4">>), Null, Str(<<"4", "A">>), Num(4),
            Str(<<"4", "4">>), Null, Null, Null) }

\* the tables of up to three of these rows, in any order
TablesOf(samples) ==
  {<<>>} \cup {<<a>> : a \in samples}
         \cup {t \in {<<a, b>> : a \in samples, b \in samples} : t[1] # t[2]}
         \cup {t \in {<<a, b, c>> : a \in samples, b \in samples, c \in samples} :
                 t[1] # t[2] /\ t[1] # t[3] /\ t[2] # t[3]}

\* the texts a filter of up to MaxBuf typed characters can be
FilterTexts ==
  UNION {{t \in [1..n -> Chars] : TRUE} : n \in 0..MaxBuf}

RECURSIVE AsText(_)
\* a function on 1..n as the text it is
AsText(f) ==
  IF DOMAIN f = {} THEN <<>>
  ELSE LET n == Cardinality(DOMAIN f)
       IN AsText([i \in 1..(n - 1) |-> f[i]]) \o <<f[n]>>

\* A list in navigating mode with a committed filter, over tables of any
\* content: the user has searched, and earlier sessions have filled the
\* tables.  Nothing is typed, saved or deleted from here on.
InitFilter ==
  /\ currentView \in {"customer-list", "product-list"}
  /\ selectedIndex = 0
  /\ searchFilter \in {AsText(t) : t \in FilterTexts}
  /\ isSearching = FALSE
  /\ formData = EmptyObj
  /\ formStep = 0
  /\ editingId = NoId
  /\ inputBuffer = <<>>
  /\ confirmIndex = 0
  /\ previousView = "none"
  /\ confirmAction = "none"
  /\ \/ /\ currentView = "customer-list"
        /\ customers \in TablesOf(CustomerSamples)
        /\ products = InitProducts
     \/ /\ currentView = "product-list"
        /\ customers = InitCustomers
        /\ products \in TablesOf(ProductSamples)
  /\ nextId = 9
  /\ timers = <<>>
  /\ status = "running"
  /\ rawMode = TRUE
  /\ screen = currentView
  /\ call = NoCall
  /\ edits = 0
  /\ calls = 0
  /\ limits = [edits |-> 0, search |-> 0, buf |-> MaxBuf, moves |-> FALSE,
               calls |-> 0, messages |-> 0, stats |-> 0]
  /\ trip = -1
  /\ played = <<>>

(* ---------------------------- the form ---------------------------------- *)

formSteps(view) ==
  IF view = "customer-form" THEN customerFormSteps ELSE productFormSteps

listOf(formView) ==
  IF formView = "customer-form" THEN "customer-list" ELSE "product-list"

\* Fault: a buffer that is no number is stored as NaN.
commitValueNaN(step, buffer) ==
  IF step.type = "number" /\ buffer # <<>>
  THEN parseFloat(buffer)
  ELSE Or(Str(buffer), Str(<<>>))

\* "Save current field": the value the buffer is stored as.  A numeric step
\* with a non-empty buffer stores parseFloat(buffer) || 0, every other case
\* stores buffer || ''
commitValue(step, buffer) ==
  IF step.type = "number" /\ buffer # <<>>
  THEN Or(parseFloat(buffer), Num(0))
  ELSE Or(Str(buffer), Str(<<>>))

\* formData after "Save current field" on step number i of steps
commitField(steps, i) ==
  Put(formData, StepAt(steps, i).field, commitValue(StepAt(steps, i), inputBuffer))

\* String(formData[step.field] || '')
seedBuffer(data, step) == String(Or(Get(data, step.field), Str(<<>>)))

\* an uncaught TypeError in a handler ends the process; the 'exit'
\* listener runs cleanup() on the way out
Crash ==
  /\ status' = "crashed"
  /\ rawMode' = FALSE
  /\ screen' = "none"
  /\ UNCHANGED <<tui, store, timers, call, calls, limits, edits>>

\* Fault: the advance leaves the buffer of the field it leaves unstored.
moveToNextFieldNoCommit ==
  LET steps == formSteps(currentView)
  IN /\ UNCHANGED formData
     /\ IF formStep < Len(steps) - 1
        THEN /\ formStep' = formStep + 1
             /\ inputBuffer' = seedBuffer(formData, StepAt(steps, formStep + 1))
        ELSE UNCHANGED <<formStep, inputBuffer>>

\* Fault: the advance is not clamped at the last step.
moveToNextFieldUnclamped ==
  LET steps == formSteps(currentView)
      data == commitField(steps, formStep)
  IN /\ formData' = data
     /\ formStep' = formStep + 1
     /\ inputBuffer' = IF formStep < Len(steps) - 1
                       THEN seedBuffer(data, StepAt(steps, formStep + 1))
                       ELSE <<>>

moveToNextField ==
  LET steps == formSteps(currentView)
      data == commitField(steps, formStep)
  IN /\ formData' = data
     /\ IF formStep < Len(steps) - 1
        THEN /\ formStep' = formStep + 1
             /\ inputBuffer' = seedBuffer(data, StepAt(steps, formStep + 1))
        ELSE UNCHANGED <<formStep, inputBuffer>>

moveToPrevField ==
  LET steps == formSteps(currentView)
      data == commitField(steps, formStep)
  IN /\ formData' = data
     /\ IF formStep > 0
        THEN /\ formStep' = formStep - 1
             /\ inputBuffer' = seedBuffer(data, StepAt(steps, formStep - 1))
        ELSE UNCHANGED <<formStep, inputBuffer>>

\* handleFormView(key).  steps[formStep] of a step past the end is
\* undefined and reading its type throws.
handleFormView(key) ==
  IF key \in {"Up", "Down", "Tab", "Enter"}
  THEN IF formStep >= Len(formSteps(currentView)) THEN Crash
       ELSE /\ limits.moves
            /\ IF key = "Up" THEN moveToPrevField ELSE moveToNextField
            /\ screen' = currentView
            /\ UNCHANGED <<currentView, selectedIndex, searchFilter, isSearching,
                           editingId, confirmIndex, previousView, confirmAction,
                           quiet, edits>>
  ELSE IF Backspace(key)
  THEN IF Len(inputBuffer) > 0
       THEN /\ edits < limits.edits
            /\ inputBuffer' = DropLast(inputBuffer)
            /\ edits' = edits + 1
            /\ screen' = currentView
            /\ UNCHANGED <<currentView, selectedIndex, searchFilter, isSearching,
                           formData, formStep, editingId, confirmIndex,
                           previousView, confirmAction, quiet>>
       ELSE UNCHANGED ctl
  ELSE IF Printable(key)
  THEN /\ Len(inputBuffer) < limits.buf
       /\ edits < limits.edits
       /\ inputBuffer' = inputBuffer \o <<key>>
       /\ edits' = edits + 1
       /\ screen' = currentView
       /\ UNCHANGED <<currentView, selectedIndex, searchFilter, isSearching,
                      formData, formStep, editingId, confirmIndex,
                      previousView, confirmAction, quiet>>
  ELSE UNCHANGED ctl

(* ---------------------------- main menu and lists ----------------------- *)

\* how many timers of a kind are pending
Pending(kind) == Cardinality({i \in 1..Len(timers) : timers[i] = kind})

\* Fault: a list is entered with the selection left where it was.
enterListKeepIndex(view) ==
  /\ currentView' = view
  /\ selectedIndex' = selectedIndex
  /\ isSearching' = FALSE
  /\ searchFilter' = <<>>
  /\ inputBuffer' = <<>>
  /\ editingId' = NoId
  /\ formData' = EmptyObj
  /\ screen' = view

\* Fault: a list is entered with the form's record still held.
enterListKeepRecord(view) ==
  /\ currentView' = view
  /\ selectedIndex' = 0
  /\ isSearching' = FALSE
  /\ searchFilter' = <<>>
  /\ inputBuffer' = <<>>
  /\ editingId' = editingId
  /\ formData' = formData
  /\ screen' = view

\* the assignments made on every way into a list from the menu, a form or
\* the message timer, and the repaint of the list
enterList(view) ==
  /\ currentView' = view
  /\ selectedIndex' = 0
  /\ isSearching' = FALSE
  /\ searchFilter' = <<>>
  /\ inputBuffer' = <<>>
  /\ editingId' = NoId
  /\ formData' = EmptyObj
  /\ screen' = view

\* showStats(): paints the counts and schedules the return to the menu
showStats ==
  /\ Pending("stats") < limits.stats
  /\ timers' = Append(timers, "stats")
  /\ screen' = "stats"
  /\ UNCHANGED <<tui, store, status, rawMode, call, calls, limits, edits>>

\* Fault: the process exits with the terminal left in raw mode.
ExitNoCleanup ==
  /\ status' = "exited"
  /\ UNCHANGED <<rawMode, screen>>
  /\ UNCHANGED <<tui, store, timers, call, calls, limits, edits>>

\* cleanup(); process.exit(0)
Exit ==
  /\ status' = "exited"
  /\ rawMode' = FALSE
  /\ screen' = "none"
  /\ UNCHANGED <<tui, store, timers, call, calls, limits, edits>>

\* Fault: a key the menu does not know repaints the menu.
handleMainMenuRepaints(key) ==
  IF key \in {"Up", "Down"}
  THEN /\ selectedIndex' =
            IF key = "Up"
            THEN (IF selectedIndex - 1 > 0 THEN selectedIndex - 1 ELSE 0)
            ELSE (IF selectedIndex + 1 < 3 THEN selectedIndex + 1 ELSE 3)
       /\ screen' = "main"
       /\ UNCHANGED <<currentView, searchFilter, isSearching, formData, formStep,
                      editingId, inputBuffer, confirmIndex, previousView,
                      confirmAction, quiet, edits>>
  ELSE IF key = "Enter"
  THEN CASE selectedIndex \in {0, 1} ->
              /\ enterList(IF selectedIndex = 0 THEN "customer-list" ELSE "product-list")
              /\ UNCHANGED <<formStep, confirmIndex, previousView, confirmAction,
                             quiet, edits>>
         [] selectedIndex = 2 -> showStats
         [] selectedIndex = 3 -> Exit
         [] OTHER -> UNCHANGED ctl
  ELSE /\ screen' = "main"
       /\ UNCHANGED <<tui, quiet, edits>>

\* Fault: the arrows of the menu are not clamped.
handleMainMenuUnclamped(key) ==
  IF key \in {"Up", "Down"}
  THEN /\ selectedIndex' = IF key = "Up" THEN selectedIndex - 1 ELSE selectedIndex + 1
       /\ screen' = "main"
       /\ UNCHANGED <<currentView, searchFilter, isSearching, formData, formStep,
                      editingId, inputBuffer, confirmIndex, previousView,
                      confirmAction, quiet, edits>>
  ELSE IF key = "Enter"
  THEN CASE selectedIndex \in {0, 1} ->
              /\ enterList(IF selectedIndex = 0 THEN "customer-list" ELSE "product-list")
              /\ UNCHANGED <<formStep, confirmIndex, previousView, confirmAction,
                             quiet, edits>>
         [] selectedIndex = 2 -> showStats
         [] selectedIndex = 3 -> Exit
         [] OTHER -> UNCHANGED ctl
  ELSE UNCHANGED ctl

handleMainMenu(key) ==
  IF key \in {"Up", "Down"}
  THEN /\ selectedIndex' =
            IF key = "Up"
            THEN (IF selectedIndex - 1 > 0 THEN selectedIndex - 1 ELSE 0)
            ELSE (IF selectedIndex + 1 < 3 THEN selectedIndex + 1 ELSE 3)
       /\ screen' = "main"
       /\ UNCHANGED <<currentView, searchFilter, isSearching, formData, formStep,
                      editingId, inputBuffer, confirmIndex, previousView,
                      confirmAction, quiet, edits>>
  ELSE IF key = "Enter"
  THEN CASE selectedIndex \in {0, 1} ->
              /\ enterList(IF selectedIndex = 0 THEN "customer-list" ELSE "product-list")
              /\ UNCHANGED <<formStep, confirmIndex, previousView, confirmAction,
                             quiet, edits>>
         [] selectedIndex = 2 -> showStats
         [] selectedIndex = 3 -> Exit
         [] OTHER -> UNCHANGED ctl
  ELSE UNCHANGED ctl

\* handleListView(key)
\* what every branch of handleListView that stays in the list leaves alone,
\* and its repaint
listRest ==
  /\ screen' = currentView
  /\ UNCHANGED <<currentView, formData, formStep, editingId,
                 confirmIndex, previousView, confirmAction, quiet>>

\* Fault: Backspace in the search leaves the filter as it was.
searchBackspaceStaleFilter ==
  /\ edits < limits.search
  /\ inputBuffer' = DropLast(inputBuffer)
  /\ searchFilter' = searchFilter
  /\ selectedIndex' = 0
  /\ edits' = edits + 1
  /\ listRest
  /\ UNCHANGED isSearching

\* searching mode, Backspace on a buffer that is not empty
searchBackspace ==
  /\ edits < limits.search
  /\ inputBuffer' = DropLast(inputBuffer)
  /\ searchFilter' = DropLast(inputBuffer)
  /\ selectedIndex' = 0
  /\ edits' = edits + 1
  /\ listRest
  /\ UNCHANGED isSearching

\* searching mode, a regular character
searchAppend(key) ==
  /\ Len(inputBuffer) < limits.buf
  /\ edits < limits.search
  /\ inputBuffer' = inputBuffer \o <<key>>
  /\ searchFilter' = inputBuffer \o <<key>>
  /\ selectedIndex' = 0
  /\ edits' = edits + 1
  /\ listRest
  /\ UNCHANGED isSearching

\* Fault: the character that starts a search is added to the old filter.
startSearchAppending(key) ==
  /\ edits < limits.search
  /\ isSearching' = TRUE
  /\ inputBuffer' = <<key>>
  /\ searchFilter' = searchFilter \o <<key>>
  /\ selectedIndex' = 0
  /\ edits' = edits + 1
  /\ listRest

\* navigating mode, a regular character: the search starts with it
startSearch(key) ==
  /\ edits < limits.search
  /\ isSearching' = TRUE
  /\ inputBuffer' = <<key>>
  /\ searchFilter' = <<key>>
  /\ selectedIndex' = 0
  /\ edits' = edits + 1
  /\ listRest

\* Fault: Enter opens the selected record without looking whether the list
\* has one.
openRecordUnguarded(filteredRecords, isCustomer) ==
  IF selectedIndex >= Len(filteredRecords) THEN Crash
  ELSE LET selectedRecord == filteredRecords[selectedIndex + 1]
           form == IF isCustomer THEN "customer-form" ELSE "product-form"
       IN /\ editingId' = selectedRecord["id"].n
          /\ formData' = selectedRecord
          /\ formStep' = 0
          /\ currentView' = form
          /\ inputBuffer' = seedBuffer(selectedRecord, StepAt(formSteps(form), 0))
          /\ screen' = form
          /\ UNCHANGED <<selectedIndex, searchFilter, isSearching,
                         confirmIndex, previousView, confirmAction,
                         quiet, edits>>

\* Fault: the record is taken from the whole table, not from the records
\* the filter leaves.
openRecordUnfiltered(filteredRecords, isCustomer) ==
  LET records == IF isCustomer THEN customers ELSE products
  IN IF Len(filteredRecords) > 0
     THEN IF selectedIndex >= Len(records) THEN Crash
          ELSE LET selectedRecord == records[selectedIndex + 1]
                   form == IF isCustomer THEN "customer-form" ELSE "product-form"
               IN /\ editingId' = selectedRecord["id"].n
                  /\ formData' = selectedRecord
                  /\ formStep' = 0
                  /\ currentView' = form
                  /\ inputBuffer' = seedBuffer(selectedRecord, StepAt(formSteps(form), 0))
                  /\ screen' = form
                  /\ UNCHANGED <<selectedIndex, searchFilter, isSearching,
                                 confirmIndex, previousView, confirmAction,
                                 quiet, edits>>
     ELSE UNCHANGED ctl

\* navigating mode, Enter: the form of the selected record.  With no record
\* shown nothing happens; filteredRecords[selectedIndex] past the end is
\* undefined and reading its id throws.
openRecord(filteredRecords, isCustomer) ==
  IF Len(filteredRecords) > 0
  THEN IF selectedIndex >= Len(filteredRecords) THEN Crash
       ELSE LET selectedRecord == filteredRecords[selectedIndex + 1]
                form == IF isCustomer THEN "customer-form" ELSE "product-form"
            IN /\ editingId' = selectedRecord["id"].n
               /\ formData' = selectedRecord
               /\ formStep' = 0
               /\ currentView' = form
               /\ inputBuffer' = seedBuffer(selectedRecord, StepAt(formSteps(form), 0))
               /\ screen' = form
               /\ UNCHANGED <<selectedIndex, searchFilter, isSearching,
                              confirmIndex, previousView, confirmAction,
                              quiet, edits>>
  ELSE UNCHANGED ctl

handleListView(key) ==
  LET isCustomer == currentView = "customer-list"
      records == IF isCustomer THEN customers ELSE products
      filteredRecords == filterRecords(records, searchFilter, isCustomer)
      rest == listRest
  IN IF isSearching
     THEN IF key = "Enter"
          THEN /\ isSearching' = FALSE
               /\ searchFilter' = inputBuffer
               /\ selectedIndex' = 0
               /\ inputBuffer' = <<>>
               /\ rest
               /\ UNCHANGED edits
          ELSE IF Backspace(key)
          THEN IF Len(inputBuffer) > 0
               THEN searchBackspace
               ELSE UNCHANGED ctl
          ELSE IF Printable(key)
          THEN searchAppend(key)
          ELSE UNCHANGED ctl
     ELSE IF key = "Up" /\ Len(filteredRecords) > 0
          THEN /\ selectedIndex' = IF selectedIndex - 1 > 0 THEN selectedIndex - 1 ELSE 0
               /\ rest
               /\ UNCHANGED <<searchFilter, isSearching, inputBuffer, edits>>
          ELSE IF key = "Down" /\ Len(filteredRecords) > 0
          THEN /\ selectedIndex' = IF Len(filteredRecords) - 1 < selectedIndex + 1
                                   THEN Len(filteredRecords) - 1 ELSE selectedIndex + 1
               /\ rest
               /\ UNCHANGED <<searchFilter, isSearching, inputBuffer, edits>>
          ELSE IF key = "Enter"
          THEN openRecord(filteredRecords, isCustomer)
          ELSE IF Printable(key)
          THEN startSearch(key)
          ELSE UNCHANGED ctl

(* ---------------------------- confirmation ------------------------------ *)

\* showMessage(message, isError): paints the message and schedules the
\* return to a list; tuiState is left as it is
showMessage(isError) ==
  /\ timers' = Append(timers, "message")
  /\ screen' = IF isError THEN "error" ELSE "message"

\* the table, columns and name of the entity of previousView
isCustomerOp == previousView = "customer-form"
opTable == IF isCustomerOp THEN customers ELSE products
opColumns == IF isCustomerOp THEN customerColumns ELSE productColumns
opName == IF isCustomerOp THEN "customers" ELSE "products"

\* the tables after a Store call on the entity of previousView
storeResult(rows) ==
  /\ customers' = IF isCustomerOp THEN rows ELSE customers
  /\ products' = IF isCustomerOp THEN products ELSE rows

\* Fault: a save always creates, whether or not a record is being edited.
executeFormSaveAlwaysCreate ==
  LET steps == formSteps(previousView)
      committed == formStep < Len(steps)
      data == IF committed THEN commitField(steps, formStep) ELSE formData
      called == committed /\ IsForm(previousView)
      res == opsCreate(opColumns, opTable, nextId, data)
      threw == ~committed \/ res.threw
  IN /\ formData' = data
     /\ IF called
        THEN /\ calls < limits.calls
             /\ storeResult(res.rows)
             /\ nextId' = nextId + 1
             /\ calls' = calls + 1
             /\ call' = [op |-> "create", table |-> opName, id |-> editingId,
                         threw |-> res.threw, found |-> res.found,
                         message |-> IF res.threw THEN "error" ELSE "success"]
        ELSE UNCHANGED <<store, calls, call>>
     /\ IF called \/ ~committed
        THEN /\ Pending("message") < limits.messages
             /\ showMessage(threw)
        ELSE UNCHANGED <<timers, screen>>
     /\ UNCHANGED <<currentView, selectedIndex, searchFilter, isSearching,
                    formStep, editingId, inputBuffer, confirmIndex,
                    previousView, confirmAction, status, rawMode, limits, edits>>

\* Fault: an error of the Store call is not caught and ends the process.
executeFormSaveUncaught ==
  LET steps == formSteps(previousView)
      committed == formStep < Len(steps)
      data == IF committed THEN commitField(steps, formStep) ELSE formData
      called == committed /\ IsForm(previousView)
      res == IF editingId # NoId
             THEN opsUpdate(opColumns, opTable, editingId, data)
             ELSE opsCreate(opColumns, opTable, nextId, data)
      uncaught == called /\ res.threw
  IN /\ formData' = data
     /\ IF called
        THEN /\ calls < limits.calls
             /\ storeResult(res.rows)
             /\ nextId' = IF editingId # NoId THEN nextId ELSE nextId + 1
             /\ calls' = calls + 1
             /\ call' = [op |-> IF editingId # NoId THEN "update" ELSE "create",
                         table |-> opName, id |-> editingId,
                         threw |-> res.threw, found |-> res.found,
                         message |-> IF res.threw THEN "none" ELSE "success"]
        ELSE UNCHANGED <<store, calls, call>>
     /\ IF uncaught
        THEN /\ status' = "crashed"
             /\ rawMode' = FALSE
             /\ screen' = "none"
             /\ UNCHANGED timers
        ELSE /\ IF called \/ ~committed
                THEN /\ Pending("message") < limits.messages
                     /\ showMessage(~committed)
                ELSE UNCHANGED <<timers, screen>>
             /\ UNCHANGED <<status, rawMode>>
     /\ UNCHANGED <<currentView, selectedIndex, searchFilter, isSearching,
                    formStep, editingId, inputBuffer, confirmIndex,
                    previousView, confirmAction, limits, edits>>

\* executeFormSave(): commits the current field, then update (editingId
\* set) or create on the entity of previousView.  Everything runs in one
\* try: a step past the end (steps[formStep] undefined) or a Store error is
\* caught and shown as an error message.
executeFormSave ==
  LET steps == formSteps(previousView)
      committed == formStep < Len(steps)
      data == IF committed THEN commitField(steps, formStep) ELSE formData
      called == committed /\ IsForm(previousView)
      res == IF editingId # NoId
             THEN opsUpdate(opColumns, opTable, editingId, data)
             ELSE opsCreate(opColumns, opTable, nextId, data)
      threw == ~committed \/ res.threw
  IN /\ formData' = data
     /\ IF called
        THEN /\ calls < limits.calls
             /\ storeResult(res.rows)
             /\ nextId' = IF editingId # NoId THEN nextId ELSE nextId + 1
             /\ calls' = calls + 1
             /\ call' = [op |-> IF editingId # NoId THEN "update" ELSE "create",
                         table |-> opName, id |-> editingId,
                         threw |-> res.threw, found |-> res.found,
                         message |-> IF res.threw THEN "error" ELSE "success"]
        ELSE UNCHANGED <<store, calls, call>>
     /\ IF called \/ ~committed
        THEN /\ Pending("message") < limits.messages
             /\ showMessage(threw)
        ELSE UNCHANGED <<timers, screen>>
     /\ UNCHANGED <<currentView, selectedIndex, searchFilter, isSearching,
                    formStep, editingId, inputBuffer, confirmIndex,
                    previousView, confirmAction, status, rawMode, limits, edits>>

\* executeFormDelete()
executeFormDelete ==
  LET res == opsDelete(opTable, editingId)
  IN IF IsForm(previousView)
     THEN /\ Pending("message") < limits.messages
          /\ calls < limits.calls
          /\ storeResult(res.rows)
          /\ calls' = calls + 1
          /\ showMessage(res.threw)
          /\ call' = [op |-> "delete", table |-> opName, id |-> editingId,
                      threw |-> res.threw, found |-> res.found,
                      message |-> IF res.threw THEN "error" ELSE "success"]
          /\ UNCHANGED <<tui, nextId, status, rawMode, limits, edits>>
     ELSE UNCHANGED ctl

\* Fault: going back to the form clears the pending timers.
returnToFormClearsTimers ==
  IF ~IsForm(previousView) THEN UNCHANGED ctl
  ELSE IF formStep >= Len(formSteps(previousView)) THEN Crash
  ELSE /\ currentView' = previousView
       /\ inputBuffer' = seedBuffer(formData, StepAt(formSteps(previousView), formStep))
       /\ screen' = previousView
       /\ timers' = <<>>
       /\ UNCHANGED <<selectedIndex, searchFilter, isSearching, formData, formStep,
                      editingId, confirmIndex, previousView, confirmAction,
                      store, status, rawMode, call, calls, limits, edits>>

\* returnToForm(), and the same assignments of the Escape branch.  With
\* previousView no form nothing happens; steps[formStep] of a step past the
\* end is undefined and reading its field throws.
returnToForm ==
  IF ~IsForm(previousView) THEN UNCHANGED ctl
  ELSE IF formStep >= Len(formSteps(previousView)) THEN Crash
  ELSE /\ currentView' = previousView
       /\ inputBuffer' = seedBuffer(formData, StepAt(formSteps(previousView), formStep))
       /\ screen' = previousView
       /\ UNCHANGED <<selectedIndex, searchFilter, isSearching, formData, formStep,
                      editingId, confirmIndex, previousView, confirmAction,
                      quiet, edits>>

\* Fault: Enter confirms whichever choice is highlighted.
handleConfirmationAnyChoice(key) ==
  IF key \in {"Left", "Right"}
  THEN /\ confirmIndex' = IF key = "Left" THEN 0 ELSE 1
       /\ screen' = "confirm"
       /\ UNCHANGED <<currentView, selectedIndex, searchFilter, isSearching,
                      formData, formStep, editingId, inputBuffer, previousView,
                      confirmAction, quiet, edits>>
  ELSE IF key = "Enter"
  THEN CASE confirmAction = "save" -> executeFormSave
         [] confirmAction = "delete" -> executeFormDelete
         [] OTHER -> UNCHANGED ctl
  ELSE UNCHANGED ctl

\* Fault: either arrow flips the choice.
handleConfirmationToggle(key) ==
  IF key \in {"Left", "Right"}
  THEN /\ confirmIndex' = 1 - confirmIndex
       /\ screen' = "confirm"
       /\ UNCHANGED <<currentView, selectedIndex, searchFilter, isSearching,
                      formData, formStep, editingId, inputBuffer, previousView,
                      confirmAction, quiet, edits>>
  ELSE IF key = "Enter"
  THEN IF confirmIndex = 1
       THEN CASE confirmAction = "save" -> executeFormSave
              [] confirmAction = "delete" -> executeFormDelete
              [] OTHER -> UNCHANGED ctl
       ELSE returnToForm
  ELSE UNCHANGED ctl

handleConfirmation(key) ==
  IF key \in {"Left", "Right"}
  THEN /\ confirmIndex' = IF key = "Left" THEN 0 ELSE 1
       /\ screen' = "confirm"
       /\ UNCHANGED <<currentView, selectedIndex, searchFilter, isSearching,
                      formData, formStep, editingId, inputBuffer, previousView,
                      confirmAction, quiet, edits>>
  ELSE IF key = "Enter"
  THEN IF confirmIndex = 1
       THEN CASE confirmAction = "save" -> executeFormSave
              [] confirmAction = "delete" -> executeFormDelete
              [] OTHER -> UNCHANGED ctl
       ELSE returnToForm
  ELSE UNCHANGED ctl

(* ---------------------------- the dispatcher ---------------------------- *)

\* Fault: the confirmation opens without recording the form it came from.
openConfirmNoPrevious(action, index) ==
  /\ currentView' = "confirm-action"
  /\ confirmAction' = action
  /\ confirmIndex' = index
  /\ screen' = "confirm"
  /\ UNCHANGED <<selectedIndex, searchFilter, isSearching, formData, formStep,
                 editingId, inputBuffer, previousView, quiet, edits>>

\* the assignments of the Ctrl+S and Ctrl+D branches
openConfirm(action, index) ==
  /\ previousView' = currentView
  /\ currentView' = "confirm-action"
  /\ confirmAction' = action
  /\ confirmIndex' = index
  /\ screen' = "confirm"
  /\ UNCHANGED <<selectedIndex, searchFilter, isSearching, formData, formStep,
                 editingId, inputBuffer, quiet, edits>>

\* Ctrl+S in a form: the save confirmation, "yes" chosen
confirmSave == openConfirm("save", 1)

\* Fault: the delete confirmation opens with "yes" chosen.
confirmDeleteYes == openConfirm("delete", 1)

\* Ctrl+D in the form of an existing record: the delete confirmation, "no"
\* chosen
confirmDelete == openConfirm("delete", 0)

\* Ctrl+N in a list: an empty form
newForm ==
  /\ currentView' = IF currentView = "customer-list" THEN "customer-form"
                    ELSE "product-form"
  /\ formData' = EmptyObj
  /\ formStep' = 0
  /\ editingId' = NoId
  /\ inputBuffer' = <<>>
  /\ screen' = IF currentView = "customer-list" THEN "customer-form"
               ELSE "product-form"
  /\ UNCHANGED <<selectedIndex, searchFilter, isSearching, confirmIndex,
                 previousView, confirmAction, quiet, edits>>

\* Fault: Escape in a list with a filter only clears the filter.
handleEscapeClearsFilter ==
  IF currentView = "main" THEN Exit
  ELSE IF IsForm(currentView)
  THEN /\ enterList(listOf(currentView))
       /\ UNCHANGED <<formStep, confirmIndex, previousView, confirmAction,
                      quiet, edits>>
  ELSE IF currentView = "confirm-action" THEN returnToForm
  ELSE IF isSearching \/ searchFilter # <<>>
  THEN /\ isSearching' = FALSE
       /\ inputBuffer' = <<>>
       /\ searchFilter' = <<>>
       /\ selectedIndex' = 0
       /\ screen' = currentView
       /\ UNCHANGED <<currentView, formData, formStep, editingId, confirmIndex,
                      previousView, confirmAction, quiet, edits>>
  ELSE /\ currentView' = "main"
       /\ selectedIndex' = 0
       /\ inputBuffer' = <<>>
       /\ searchFilter' = <<>>
       /\ editingId' = NoId
       /\ formData' = EmptyObj
       /\ screen' = "main"
       /\ UNCHANGED <<isSearching, formStep, confirmIndex, previousView,
                      confirmAction, quiet, edits>>

\* the ESC branch of handleKeyPress
handleEscape ==
  IF currentView = "main" THEN Exit
  ELSE IF IsForm(currentView)
  THEN /\ enterList(listOf(currentView))
       /\ UNCHANGED <<formStep, confirmIndex, previousView, confirmAction,
                      quiet, edits>>
  ELSE IF currentView = "confirm-action" THEN returnToForm
  ELSE IF isSearching
  THEN /\ isSearching' = FALSE
       /\ inputBuffer' = <<>>
       /\ searchFilter' = <<>>
       /\ selectedIndex' = 0
       /\ screen' = currentView
       /\ UNCHANGED <<currentView, formData, formStep, editingId, confirmIndex,
                      previousView, confirmAction, quiet, edits>>
  ELSE /\ currentView' = "main"
       /\ selectedIndex' = 0
       /\ inputBuffer' = <<>>
       /\ searchFilter' = <<>>
       /\ editingId' = NoId
       /\ formData' = EmptyObj
       /\ screen' = "main"
       /\ UNCHANGED <<isSearching, formStep, confirmIndex, previousView,
                      confirmAction, quiet, edits>>

\* Fault: Ctrl+D opens the delete confirmation in any form, also that of a
\* new record.
handleKeyPressDeleteAnyForm(key) ==
  /\ status = "running"
  /\ IF key = "CtrlC" THEN Exit
     ELSE IF key = "CtrlS" /\ IsForm(currentView) THEN confirmSave
     ELSE IF key = "CtrlD" /\ IsForm(currentView) THEN confirmDelete
     ELSE IF key = "CtrlN" /\ IsList(currentView) THEN newForm
     ELSE IF key = "Esc" THEN handleEscape
     ELSE CASE currentView = "main" -> handleMainMenu(key)
            [] IsList(currentView) -> handleListView(key)
            [] IsForm(currentView) -> handleFormView(key)
            [] currentView = "confirm-action" -> handleConfirmation(key)
            [] OTHER -> UNCHANGED ctl

\* handleKeyPress(data): one key event, handled to the end
handleKeyPress(key) ==
  /\ status = "running"
  /\ IF key = "CtrlC" THEN Exit
     ELSE IF key = "CtrlS" /\ IsForm(currentView) THEN confirmSave
     ELSE IF key = "CtrlD" /\ IsForm(currentView) /\ editingId # NoId
     THEN confirmDelete
     ELSE IF key = "CtrlN" /\ IsList(currentView) THEN newForm
     ELSE IF key = "Esc" THEN handleEscape
     ELSE CASE currentView = "main" -> handleMainMenu(key)
            [] IsList(currentView) -> handleListView(key)
            [] IsForm(currentView) -> handleFormView(key)
            [] currentView = "confirm-action" -> handleConfirmation(key)
            [] OTHER -> UNCHANGED ctl

\* trip after a key: 0 on the way from a list into a form, one more for the
\* next key of the walk, unchanged by a key that changes nothing
tripAfter(key) ==
  LET last == Len(formSteps(currentView)) - 1
  IN IF IsList(currentView) /\ IsForm(currentView') THEN 0
     ELSE IF ~(IsForm(currentView) /\ currentView' = currentView) THEN -1
     ELSE IF key \in {"Down", "Tab", "Enter"} /\ 0 <= trip /\ trip < last
     THEN trip + 1
     ELSE IF key = "Up" /\ last <= trip /\ trip < 2 * last THEN trip + 1
     ELSE IF tui' = tui THEN trip
     ELSE -1

KeyPress ==
  \E key \in Keys :
    /\ handleKeyPress(key)
    /\ trip' = tripAfter(key)
    /\ UNCHANGED played

\* The sessions that follow a script: from the main menu Enter opens the
\* customer list, Ctrl+N a new customer, three characters are typed into
\* the first field, Enter is pressed four times, then Ctrl+S, then Enter
\* on the confirmation.
NameScripts ==
  { <<"Enter", "CtrlN">> \o name
      \o <<"Enter", "Enter", "Enter", "Enter", "CtrlS", "Enter">> :
    name \in [1..3 -> NameChars] }

\* the next key of a scripted session arrives on stdin
ScriptedKey ==
  \E key \in Keys \cup NameChars :
    /\ \E script \in NameScripts :
         /\ Len(played) < Len(script)
         /\ SubSeq(script, 1, Len(played) + 1) = Append(played, key)
    /\ handleKeyPress(key)
    /\ trip' = tripAfter(key)
    /\ played' = Append(played, key)

(* ---------------------------- timers and resize ------------------------- *)

\* Fault: the callback leaves the input buffer as it was.
MessageTimeoutKeepBuffer ==
  /\ status = "running"
  /\ \E i \in 1..Len(timers) :
       /\ timers[i] = "message"
       /\ \A j \in 1..(i - 1) : timers[j] # "message"
       /\ timers' = SubSeq(timers, 1, i - 1) \o SubSeq(timers, i + 1, Len(timers))
  /\ currentView' = (IF previousView = "customer-form" THEN "customer-list"
                     ELSE "product-list")
  /\ screen' = currentView'
  /\ selectedIndex' = 0
  /\ isSearching' = FALSE
  /\ searchFilter' = <<>>
  /\ editingId' = NoId
  /\ formData' = EmptyObj
  /\ trip' = -1
  /\ UNCHANGED <<inputBuffer, formStep, confirmIndex, previousView, confirmAction,
                 store, status, rawMode, call, calls, limits, edits, played>>

\* Fault: the callback returns to the list of the other entity.
MessageTimeoutOtherList ==
  /\ status = "running"
  /\ \E i \in 1..Len(timers) :
       /\ timers[i] = "message"
       /\ \A j \in 1..(i - 1) : timers[j] # "message"
       /\ timers' = SubSeq(timers, 1, i - 1) \o SubSeq(timers, i + 1, Len(timers))
  /\ enterList(IF previousView = "customer-form" THEN "product-list"
               ELSE "customer-list")
  /\ trip' = -1
  /\ UNCHANGED <<formStep, confirmIndex, previousView, confirmAction,
                 store, status, rawMode, call, calls, limits, edits, played>>

\* The 2 s callback of showMessage.  Message timers run in the order they
\* were set; one may overtake a 3 s stats timer set before it.
MessageTimeout ==
  /\ status = "running"
  /\ \E i \in 1..Len(timers) :
       /\ timers[i] = "message"
       /\ \A j \in 1..(i - 1) : timers[j] # "message"
       /\ timers' = SubSeq(timers, 1, i - 1) \o SubSeq(timers, i + 1, Len(timers))
  /\ enterList(IF previousView = "customer-form" THEN "customer-list"
               ELSE "product-list")
  /\ trip' = -1
  /\ UNCHANGED <<formStep, confirmIndex, previousView, confirmAction,
                 store, status, rawMode, call, calls, limits, edits, played>>

\* The 3 s callback of showStats.  It runs after every timer set before it.
StatsTimeout ==
  /\ status = "running"
  /\ timers # <<>>
  /\ Head(timers) = "stats"
  /\ timers' = Tail(timers)
  /\ currentView' = "main"
  /\ selectedIndex' = 0
  /\ screen' = "main"
  /\ trip' = -1
  /\ UNCHANGED <<searchFilter, isSearching, formData, formStep, editingId,
                 inputBuffer, confirmIndex, previousView, confirmAction,
                 store, status, rawMode, call, calls, limits, edits, played>>

\* the 'resize' listener of startRawTui: repaints the menu or a list; its
\* switch has no case for the forms and the confirmation
Resize ==
  /\ status = "running"
  /\ IF currentView = "main" \/ IsList(currentView)
     THEN screen' = currentView
     ELSE UNCHANGED screen
  /\ UNCHANGED <<tui, quiet, edits, trip, played>>

Next == KeyPress \/ MessageTimeout \/ StatsTimeout \/ Resize

Spec == Init /\ [][Next]_vars

\* the steps of a session that sets no timer
NextWalk == KeyPress \/ Resize

SpecWalk == InitWalk /\ [][NextWalk]_vars

\* the steps of a session that shows no statistics
NextSave == KeyPress \/ MessageTimeout \/ Resize

SpecSave == InitSave /\ [][NextSave]_vars

SpecSearch == InitSearch /\ [][NextSave]_vars

SpecFilter == InitFilter /\ [][NextWalk]_vars

\* the steps of a scripted session
NextScript == ScriptedKey \/ MessageTimeout \/ Resize

SpecScript == InitScript /\ [][NextScript]_vars

SpecRepeat == InitRepeat /\ [][NextSave]_vars

\* The same sessions with the event loop running every timer it holds: a
\* callback set with setTimeout and pending while the process runs is
\* eventually called.
SpecRepeatFair == SpecRepeat /\ WF_vars(MessageTimeout)

SpecEnter == InitEnter /\ [][NextWalk]_vars

(* ---------------------------- the confirmation gate -------------------- *)

\* the records the list on screen shows
listRecords ==
  filterRecords(IF currentView = "customer-list" THEN customers ELSE products,
                searchFilter, currentView = "customer-list")

\* C1: a Store create, update or delete happens only in the handling of
\* an Enter key while the view is the confirmation and "yes" is chosen; no
\* other key, no other view and no timer callback changes the Store.
StoreCallsOnlyOnConfirmedEnter ==
  [][(calls' # calls \/ store' # store)
       => /\ handleKeyPress("Enter")
          /\ currentView = "confirm-action"
          /\ confirmIndex = 1]_vars

\* a Store call has been made and its message timer has run
StoreCallMade == calls > 0 /\ call.op # "none" /\ timers = <<>>

\* C2: Ctrl+D opens the delete confirmation with "no" chosen (every step
\* into it leaves confirmIndex = 0); Enter on "no" goes back to the form
\* and calls nothing; while it is open only a Right arrow moves the choice
\* to "yes"; and Store delete is called only from "yes".
DeleteNeedsRightArrow ==
  [][LET open == currentView = "confirm-action" /\ confirmAction = "delete"
         open1 == currentView' = "confirm-action" /\ confirmAction' = "delete"
     IN /\ (handleKeyPress("CtrlD") /\ IsForm(currentView) /\ editingId # NoId)
             => open1 /\ confirmIndex' = 0 /\ previousView' = currentView
        /\ (~open /\ open1) => confirmIndex' = 0
        /\ (open /\ confirmIndex = 0 /\ handleKeyPress("Enter"))
             => /\ currentView' = previousView
                /\ IsForm(previousView)
                /\ calls' = calls
                /\ store' = store
        /\ (open /\ open1 /\ confirmIndex = 0 /\ confirmIndex' = 1)
             => handleKeyPress("Right")
        /\ (calls' # calls /\ call'.op = "delete")
             => open /\ confirmIndex = 1]_vars

\* a record has been deleted
RecordDeleted == call.op = "delete" /\ call.found /\ Len(customers) + Len(products) = 3

(* ---------------------------- ranges ------------------------------------ *)

\* C3: in a list the selection is within 0 .. max(0, filteredCount - 1),
\* filteredCount counting the records searchFilter matches, and no Enter
\* has selected a record that does not exist.
SelectedIndexInRange ==
  /\ IsList(currentView) =>
       /\ selectedIndex >= 0
       /\ selectedIndex <= (IF Len(listRecords) > 0 THEN Len(listRecords) - 1 ELSE 0)
  /\ status # "crashed"

\* a list that a delete has left with one record, back on screen
ListAfterDelete ==
  /\ IsList(currentView)
  /\ call.op = "delete"
  /\ call.found
  /\ call.table = (IF currentView = "customer-list" THEN "customers" ELSE "products")
  /\ Len(listRecords) = 1

\* C4: in a form, and in the confirmation opened from a form, formStep is a
\* step of that form: 0..6 for a customer, 0..7 for a product.
FormStepInRange ==
  /\ IsForm(currentView) =>
       formStep \in 0..(Len(formSteps(currentView)) - 1)
  /\ (currentView = "confirm-action" /\ IsForm(previousView)) =>
       formStep \in 0..(Len(formSteps(previousView)) - 1)

\* the last step of the customer form, reached after a product was saved
CustomerLastStepAfterProduct ==
  /\ currentView = "customer-form"
  /\ formStep = Len(customerFormSteps) - 1
  /\ call.table = "products"
  /\ call.op # "delete"

(* ---------------------------- committing a field ------------------------ *)

\* the keys that advance or retreat in a form
MoveKeys == {"Down", "Tab", "Enter", "Up"}

\* the step a form is on
currentStep == StepAt(formSteps(currentView), formStep)

\* the text of a field's value, empty when the field is absent or null
Stringified(data, field) ==
  IF Get(data, field) \in {Undef, Null} THEN <<>> ELSE String(Get(data, field))

\* the value a field holds, an absent field holding empty text
Held(data, field) ==
  IF Get(data, field) = Undef THEN Str(<<>>) ELSE Get(data, field)

\* the record a form was opened on: the Store's row, or none for a new one
seedData ==
  IF editingId = NoId THEN EmptyObj
  ELSE getById(IF currentView = "customer-form" THEN customers ELSE products,
               editingId)

\* C5: Ctrl+S in a form commits the current field before the view changes:
\* right after it formData[currentStep.field] is the coerced inputBuffer,
\* the view is the confirmation of a save with "yes" chosen, and
\* previousView is the form.
CtrlSCommitsField ==
  [][(handleKeyPress("CtrlS") /\ IsForm(currentView))
       => /\ Get(formData', currentStep.field) = commitValue(currentStep, inputBuffer)
          /\ currentView' = "confirm-action"
          /\ confirmAction' = "save"
          /\ confirmIndex' = 1
          /\ previousView' = currentView]_vars

\* C6: cancelling a confirmation, by Enter on "no" or by Escape, goes back
\* to the form of previousView on the same step, with inputBuffer the text
\* of that step's formData value (empty if absent), and calls nothing.
CancelRestoresForm ==
  [][(/\ currentView = "confirm-action"
      /\ IsForm(previousView)
      /\ handleKeyPress("Esc") \/ (confirmIndex = 0 /\ handleKeyPress("Enter")))
       => /\ currentView' = previousView
          /\ formStep' = formStep
          /\ inputBuffer' =
               Stringified(formData', StepAt(formSteps(previousView), formStep).field)
          /\ calls' = calls
          /\ store' = store]_vars

EmptyNumberCommitsZero ==
  [][\A key \in MoveKeys :
       (handleKeyPress(key) /\ IsForm(currentView))
         => /\ (currentStep.type = "number" /\ inputBuffer = <<>>)
                 => Get(formData', currentStep.field) = Num(0)
            /\ currentStep.type = "text"
                 => Get(formData', currentStep.field) = Str(inputBuffer)]_vars

\* C9: after the walk from step 0 to the last step and back to step 0,
\* with nothing typed, formData holds for every field what the seed held.
RoundTripKeepsFormData ==
  (IsForm(currentView) /\ trip = 2 * (Len(formSteps(currentView)) - 1))
    => \A i \in 1..Len(formSteps(currentView)) :
         Held(formData, formSteps(currentView)[i].field)
           = Held(seedData, formSteps(currentView)[i].field)

\* C10: every advance and retreat in a form commits the current field,
\* moves formStep by one clamped to the steps of the form, and leaves
\* inputBuffer the text of the formData value of the step it ends on (empty
\* if absent), also on the first and the last step.
MoveCommitsAndReseeds ==
  [][\A key \in MoveKeys :
       (handleKeyPress(key) /\ IsForm(currentView))
         => LET last == Len(formSteps(currentView)) - 1
                target == IF key = "Up"
                          THEN (IF formStep > 0 THEN formStep - 1 ELSE 0)
                          ELSE (IF formStep < last THEN formStep + 1 ELSE last)
            IN /\ Get(formData', currentStep.field)
                    = commitValue(currentStep, inputBuffer)
               /\ formStep' = target
               /\ inputBuffer' =
                    Stringified(formData',
                                StepAt(formSteps(currentView), target).field)]_vars

(* ---------------------------- leaving a form, searching ----------------- *)

\* C11: Escape in a form calls nothing and leaves the tables as they are;
\* it goes to the list of the same entity with selectedIndex 0, no filter,
\* not searching, the buffer and formData empty and no editingId.
EscapeDiscardsForm ==
  [][(handleKeyPress("Esc") /\ IsForm(currentView))
       => /\ calls' = calls
          /\ store' = store
          /\ call' = call
          /\ currentView' = listOf(currentView)
          /\ selectedIndex' = 0
          /\ searchFilter' = <<>>
          /\ isSearching' = FALSE
          /\ inputBuffer' = <<>>
          /\ formData' = EmptyObj
          /\ editingId' = NoId]_vars

\* a list entered by Escape from a form the user had walked, after an edit
\* (no timer leads to a list in this session)
ListAfterEscape ==
  /\ IsList(currentView)
  /\ formStep > 0
  /\ edits > 0
  /\ call = NoCall
  /\ timers = <<>>

\* C12: in a list in navigating mode a printable character c starts the
\* search: isSearching becomes true, inputBuffer and searchFilter become
\* exactly c, whatever filter was committed before, and selectedIndex 0.
CharacterStartsSearch ==
  [][\A c \in Chars :
       (handleKeyPress(c) /\ IsList(currentView) /\ ~isSearching)
         => /\ isSearching' = TRUE
            /\ inputBuffer' = <<c>>
            /\ searchFilter' = <<c>>
            /\ selectedIndex' = 0
            /\ currentView' = currentView]_vars

\* a search started by the second edit of the session: the first one was
\* committed as a filter or dropped before
SecondSearchStarted ==
  /\ IsList(currentView)
  /\ isSearching
  /\ edits = 2
  /\ Len(searchFilter) = 1
  /\ searchFilter[1] \in Chars

\* C13: in a list in searching mode searchFilter equals inputBuffer; every
\* character and every Backspace typed there keeps them equal with
\* selectedIndex 0, and Backspace on an empty buffer changes nothing.
SearchFilterFollowsBuffer ==
  [][/\ (IsList(currentView') /\ isSearching') => searchFilter' = inputBuffer'
     /\ \A key \in Chars \cup {"Del", "Bs"} :
          (handleKeyPress(key) /\ IsList(currentView) /\ isSearching)
            => /\ isSearching'
               /\ searchFilter' = inputBuffer'
               /\ IF Backspace(key) /\ inputBuffer = <<>>
                  THEN UNCHANGED ctl
                  ELSE selectedIndex' = 0]_vars

\* a search whose text Backspace has emptied
SearchEmptied ==
  /\ IsList(currentView)
  /\ isSearching
  /\ edits = 2
  /\ inputBuffer = <<>>
  /\ searchFilter = <<>>

\* C17: a list whose filter matches no record shows none with selectedIndex
\* 0; in navigating mode Up, Down and Enter then leave the view,
\* selectedIndex, formData and editingId as they are, and the session goes
\* on.
EmptyResultIsInert ==
  [][/\ (IsList(currentView') /\ Len(listRecords') = 0) => selectedIndex' = 0
     /\ \A key \in {"Up", "Down", "Enter"} :
          (/\ handleKeyPress(key)
           /\ IsList(currentView)
           /\ Len(listRecords) = 0)
            => /\ UNCHANGED <<currentView, selectedIndex, formData, editingId>>
               /\ status' = "running"]_vars

\* a committed filter of typed text that matches no record
NothingMatches ==
  /\ IsList(currentView)
  /\ ~isSearching
  /\ Len(searchFilter) = 2
  /\ \A i \in 1..2 : searchFilter[i] \in Chars
  /\ Len(listRecords) = 0
  /\ status = "running"

(* ---------------------------- the filter -------------------------------- *)

\* two characters that differ at most in case
SameLetter(a, b) ==
  \/ a = b
  \/ {a, b} \in {{"A", "a"}, {"D", "d"}, {"Z", "z"}}

\* text holds t somewhere, case aside
Contains(text, t) ==
  \E k \in 0..(Len(text) - Len(t)) :
    \A j \in 1..Len(t) : SameLetter(text[k + j], t[j])

\* the three fields a search looks at
SearchFields(isCustomer) ==
  IF isCustomer THEN {"CustomerName", "CustomerPhone", "CustomerTCKN"}
  ELSE {"ProductCode", "Details", "Barcode"}

\* the positions of the records with a field that holds the filter
MatchingRows(records, t, isCustomer) ==
  {i \in 1..Len(records) :
     \E f \in SearchFields(isCustomer) :
       /\ records[i][f].k = "str"
       /\ Contains(records[i][f].s, t)}

\* result is the records at these positions, in their order
IsSelection(result, records, rows) ==
  /\ Len(result) = Cardinality(rows)
  /\ \A k \in 1..Len(result) :
       \E i \in rows :
         /\ Cardinality({j \in rows : j < i}) = k - 1
         /\ result[k] = records[i]

\* C14: filterRecords returns exactly the records of which one of the
\* three search fields holds the filter text, case aside, in their order;
\* with an empty filter, all records in their order.
FilterIsExact ==
  /\ IsSelection(filterRecords(customers, searchFilter, TRUE), customers,
                 MatchingRows(customers, searchFilter, TRUE))
  /\ IsSelection(filterRecords(products, searchFilter, FALSE), products,
                 MatchingRows(products, searchFilter, FALSE))
  /\ searchFilter = <<>> =>
       /\ filterRecords(customers, searchFilter, TRUE) = customers
       /\ filterRecords(products, searchFilter, FALSE) = products

\* a filter in lower case that picks, out of three customers, some but not
\* all, one of them by a name written in upper case
FilterPicksSome ==
  /\ currentView = "customer-list"
  /\ searchFilter = <<"a", "a">>
  /\ Len(customers) = 3
  /\ Len(listRecords) \in {1, 2}
  /\ \E k \in 1..Len(listRecords) : listRecords[k] = InitCustomers[1]

(* ---------------------------- a name typed and saved ------------------- *)

AdaName == <<"A", "d", "a">>

\* the script up to the fourth Enter after the name
AfterFourEnters ==
  played = <<"Enter", "CtrlN">> \o AdaName \o <<"Enter", "Enter", "Enter", "Enter">>

\* C16 as stated: in a new customer form at step 0, once "Ada" is typed and
\* Enter pressed four times, formStep is 3 and formData.CustomerName is
\* "Ada".
FourEntersReachStepThree ==
  AfterFourEnters =>
    /\ formStep = 3
    /\ Get(formData, "CustomerName") = Str(AdaName)

\* C16, amended: in a new customer form at step 0, once "Ada" is typed and
\* Enter pressed four times, the form is on step 4 (each Enter stores the
\* field and moves one step on from step 0) and formData.CustomerName is
\* "Ada".
FourEntersReachStepFour ==
  AfterFourEnters =>
    /\ currentView = "customer-form"
    /\ formStep = 4
    /\ Get(formData, "CustomerName") = Str(AdaName)

\* "Ada" typed into a new customer and Enter pressed four times
AdaEnteredFourTimes ==
  /\ AfterFourEnters
  /\ currentView = "customer-form"
  /\ editingId = NoId

\* the whole script with the name "Ada"
AdaScript ==
  <<"Enter", "CtrlN">> \o AdaName
    \o <<"Enter", "Enter", "Enter", "Enter", "CtrlS", "Enter">>

\* C15: from the main menu, Enter, Ctrl+N, "Ada", Enter four times, Ctrl+S
\* and Enter, with no further key: no Store call is made before the last
\* key; after it exactly one call has been made, a create on customers
\* that added one row with CustomerName "Ada"; the message screen is shown
\* while the timer is pending, and once the timer has fired the view is the
\* customer list.
AdaSavedOnce ==
  /\ (\E script \in NameScripts :
         Len(played) < Len(script) /\ played = SubSeq(script, 1, Len(played)))
       => calls = 0 /\ customers = InitCustomers /\ timers = <<>>
  /\ played = AdaScript =>
       /\ calls = 1
       /\ call.op = "create" /\ call.table = "customers" /\ ~call.threw
       /\ Len(customers) = Len(InitCustomers) + 1
       /\ SubSeq(customers, 1, Len(InitCustomers)) = InitCustomers
       /\ customers[Len(customers)].CustomerName = Str(AdaName)
       /\ products = InitProducts
       /\ status = "running"
       /\ timers # <<>> => screen = "message" /\ timers = <<"message">>
       /\ timers = <<>> => currentView = "customer-list" /\ screen = "customer-list"

\* the script with "Ada" played to its end and the message timer fired
AdaListedAfterMessage ==
  /\ played = AdaScript
  /\ timers = <<>>
  /\ currentView = "customer-list"
  /\ listRecords[Len(listRecords)].CustomerName = Str(AdaName)

(* ---------------------------- errors of the Store ---------------------- *)

\* C18: a Store call that raises during a confirmed save or delete is
\* caught in the confirmation handler: the step that makes the call shows
\* the error message, sets the message timer, leaves the tables and the
\* view as they were and leaves the session running; and while that
\* message is on screen the controller still takes keys and the message
\* timer can still fire.
StoreErrorIsCaught ==
  /\ [][(calls' # calls /\ call'.threw) =>
          /\ currentView = "confirm-action"
          /\ screen' = "error"
          /\ call'.message = "error"
          /\ timers' = Append(timers, "message")
          /\ UNCHANGED <<customers, products, currentView, editingId>>
          /\ status' = "running" /\ rawMode' = TRUE]_vars
  /\ []((call.threw /\ screen = "error") =>
          /\ status = "running"
          /\ ENABLED MessageTimeout
          /\ ENABLED KeyPress)

\* a Store call has raised and its error message is on screen
StoreErrorShown ==
  /\ call.threw
  /\ screen = "error"
  /\ calls = 1

\* C19: when the record of editingId is no longer in the Store at the time
\* a save or a delete is confirmed, the message shown is a failure, never a
\* success.
MissingRecordShowsFailure ==
  [][(calls' # calls /\ editingId # NoId /\ ~HasRow(opTable, editingId)) =>
       /\ call'.message = "error"
       /\ screen' = "error"]_vars

(* ---------------------------- the message timer ------------------------ *)

\* C20: every confirmed save or delete sets a message timer; while the
\* session is not terminated a pending message timer eventually runs; and
\* in the state right after a message timer callback the view is a list,
\* selectedIndex is 0, editingId is absent, formData is empty, inputBuffer
\* and searchFilter are empty and isSearching is false.
MessageTimerReturnsToList ==
  /\ [][calls' # calls =>
          Pending("message")' = Pending("message") + 1]_vars
  /\ \A n \in 1..(MaxMessages + 1) :
       (Pending("message") = n /\ status = "running")
         ~> (Pending("message") < n \/ status # "running")
  /\ [][Pending("message")' < Pending("message") =>
          /\ IsList(currentView')
          /\ selectedIndex' = 0
          /\ editingId' = NoId
          /\ formData' = EmptyObj
          /\ inputBuffer' = <<>>
          /\ searchFilter' = <<>>
          /\ isSearching' = FALSE
          /\ status' = "running"]_vars

\* a record was updated and the message timer has brought the list back
ListAfterUpdateMessage ==
  /\ call.op = "update"
  /\ calls = 1
  /\ timers = <<>>
  /\ currentView = "customer-list"
  /\ editingId = NoId
  /\ status = "running"

(* ---------------------------- timers that outlive their screen --------- *)

\* C21: the message and stats timers are never cancelled: only a timer's
\* own callback takes it off the pending timers, whatever the user does
\* meanwhile; a message callback, from whatever view it finds, leaves a
\* list with formData and inputBuffer empty and makes no Store call; a
\* stats callback leaves the main menu.  (The state in which the user is
\* typing in a form with both timers pending is reachable.)
TimersNeverCancelled ==
  /\ [][Len(timers') < Len(timers) => MessageTimeout \/ StatsTimeout]_vars
  /\ [][Pending("message")' < Pending("message") =>
          /\ IsList(currentView')
          /\ formData' = EmptyObj
          /\ inputBuffer' = <<>>
          /\ UNCHANGED <<customers, products, calls>>]_vars
  /\ [][Pending("stats")' < Pending("stats") =>
          /\ currentView' = "main"
          /\ selectedIndex' = 0
          /\ UNCHANGED <<customers, products, calls>>]_vars

\* the user has left the stats screen and the message of a saved new
\* customer, is back on the first field of that customer's form and has
\* typed into it, and both timers are still pending
TypingWhileTimersPending ==
  /\ timers = <<"stats", "message">>
  /\ currentView = "customer-form"
  /\ editingId = NoId
  /\ formStep = 0
  /\ Get(formData, "CustomerName") = Str(<<>>)
  /\ inputBuffer # <<>>
  /\ status = "running"

(* ---------------------------- the main menu ---------------------------- *)

\* C22: whenever the view is the main menu selectedIndex is within 0..3;
\* there Up and Down move it by one and do nothing at 0 and at 3; Enter on
\* entry 0 or 1 enters the customer or the product list with selectedIndex
\* 0, searchFilter empty and isSearching false; Enter on entry 2 shows the
\* stats screen; Enter on entry 3 terminates the session.
MainMenuDispatch ==
  /\ [](currentView = "main" => selectedIndex \in 0..3)
  /\ [][currentView = "main" /\ handleKeyPress("Up") =>
          /\ selectedIndex' = (IF selectedIndex = 0 THEN 0 ELSE selectedIndex - 1)
          /\ currentView' = "main" /\ status' = "running"]_vars
  /\ [][currentView = "main" /\ handleKeyPress("Down") =>
          /\ selectedIndex' = (IF selectedIndex = 3 THEN 3 ELSE selectedIndex + 1)
          /\ currentView' = "main" /\ status' = "running"]_vars
  /\ [][currentView = "main" /\ selectedIndex \in {0, 1} /\ handleKeyPress("Enter") =>
          /\ currentView' = (IF selectedIndex = 0 THEN "customer-list"
                             ELSE "product-list")
          /\ screen' = currentView'
          /\ selectedIndex' = 0
          /\ searchFilter' = <<>>
          /\ isSearching' = FALSE]_vars
  /\ [][currentView = "main" /\ selectedIndex = 2 /\ handleKeyPress("Enter") =>
          /\ screen' = "stats"
          /\ timers' = Append(timers, "stats")
          /\ status' = "running"]_vars
  /\ [][currentView = "main" /\ selectedIndex = 3 /\ handleKeyPress("Enter") =>
          status' = "exited"]_vars

\* the last entry of the menu is selected after a visit to a list
LastMenuEntrySelected ==
  /\ currentView = "main"
  /\ selectedIndex = 3
  /\ screen = "main"
  /\ edits > 0

(* ---------------------------- termination ------------------------------ *)

\* C23: Ctrl+C ends the session from every view and sub-mode; the session
\* ends on no other step than Ctrl+C, Escape in the main menu and Enter on
\* menu entry 3; and on each of these the terminal is restored (raw mode
\* off, screen cleared) by the step that ends the session.
OnlyExplicitTermination ==
  /\ [](status = "running" => ENABLED handleKeyPress("CtrlC"))
  /\ [][handleKeyPress("CtrlC") => status' = "exited"]_vars
  /\ [][status' # status =>
          /\ \/ handleKeyPress("CtrlC")
             \/ currentView = "main" /\ handleKeyPress("Esc")
             \/ currentView = "main" /\ selectedIndex = 3 /\ handleKeyPress("Enter")
          /\ status' = "exited"
          /\ rawMode' = FALSE
          /\ screen' = "none"]_vars
  /\ [](rawMode <=> status = "running")

\* the session was ended while a search was being typed in a list
ExitedWhileSearching ==
  /\ status = "exited"
  /\ IsList(currentView)
  /\ isSearching
  /\ inputBuffer # <<>>
  /\ rawMode = FALSE

(* ---------------------------- what a save passes to the Store ---------- *)

\* C24: a confirmed save calls update with editingId when editingId is
\* present and create when it is absent, on the entity of previousView;
\* the data passed (formData after the step) holds for the current step's
\* field the coerced inputBuffer, and the table afterwards is the result
\* of that call on that data; inputBuffer, formStep, editingId and
\* previousView do not change while the confirmation stays open, so the
\* buffer is the one Ctrl+S left.
SaveCallsCreateOrUpdate ==
  /\ [][(calls' # calls /\ confirmAction = "save") =>
          LET steps == formSteps(previousView)
              step == StepAt(steps, formStep)
              res == IF editingId # NoId
                     THEN opsUpdate(opColumns, opTable, editingId, formData')
                     ELSE opsCreate(opColumns, opTable, nextId, formData')
          IN /\ currentView = "confirm-action" /\ IsForm(previousView)
             /\ call'.op = (IF editingId # NoId THEN "update" ELSE "create")
             /\ call'.id = editingId
             /\ call'.table = (IF previousView = "customer-form" THEN "customers"
                               ELSE "products")
             /\ formData' = Put(formData, step.field, commitValue(step, inputBuffer))
             /\ customers' = (IF isCustomerOp THEN res.rows ELSE customers)
             /\ products' = (IF isCustomerOp THEN products ELSE res.rows)]_vars
  /\ [][(currentView = "confirm-action" /\ currentView' = "confirm-action") =>
          UNCHANGED <<inputBuffer, formStep, editingId, previousView,
                      confirmAction>>]_vars

\* customer 1 was renamed to the text left in the buffer by a Backspace
RenamedByUpdate ==
  /\ call.op = "update"
  /\ call.table = "customers"
  /\ call.id = 1
  /\ ~call.threw
  /\ inputBuffer = <<"A">>
  /\ HasRow(customers, 1)
  /\ getById(customers, 1).CustomerName = Str(inputBuffer)

(* ---------------------------- entering a form -------------------------- *)

\* the form of a list
formOf(view) == IF view = "customer-list" THEN "customer-form" ELSE "product-form"

\* C25: a form is entered from a list on step 0.  Ctrl+N in a list enters
\* the list's form with formData empty, editingId absent and inputBuffer
\* empty; Enter on a non-empty filtered list (not typing a search) enters
\* it with formData equal to the record at position selectedIndex of the
\* filtered list, editingId that record's id and inputBuffer the text of
\* the record's value for the first step.
FormEntered ==
  /\ [][(IsList(currentView) /\ IsForm(currentView')) => formStep' = 0]_vars
  /\ [][(IsList(currentView) /\ handleKeyPress("CtrlN")) =>
          /\ currentView' = formOf(currentView)
          /\ formStep' = 0
          /\ formData' = EmptyObj
          /\ editingId' = NoId
          /\ inputBuffer' = <<>>]_vars
  /\ [][(/\ IsList(currentView) /\ ~isSearching
         /\ Len(listRecords) > 0
         /\ handleKeyPress("Enter")) =>
          LET record == listRecords[selectedIndex + 1]
              first == StepAt(formSteps(formOf(currentView)), 0)
          IN /\ currentView' = formOf(currentView)
             /\ formStep' = 0
             /\ formData' = record
             /\ editingId' = record["id"].n
             /\ inputBuffer' = Stringified(record, first.field)]_vars

\* a record that the filter moved to the top of the list is open in its
\* form
FilteredRecordOpened ==
  /\ IsForm(currentView)
  /\ searchFilter # <<>>
  /\ selectedIndex = 0
  /\ editingId # NoId
  /\ formStep = 0
  /\ editingId # (IF currentView = "customer-form" THEN customers ELSE products)[1]["id"].n

(* ---------------------------- Escape in a list ------------------------- *)

\* C26: Escape in a list while a search is being typed keeps the view,
\* sets isSearching false and empties searchFilter and inputBuffer with
\* selectedIndex 0; Escape in a list while no search is being typed goes
\* to the main menu with selectedIndex 0, also when a committed non-empty
\* searchFilter is active.
EscapeInList ==
  /\ [][(IsList(currentView) /\ isSearching /\ handleKeyPress("Esc")) =>
          /\ currentView' = currentView
          /\ screen' = currentView
          /\ isSearching' = FALSE
          /\ searchFilter' = <<>>
          /\ inputBuffer' = <<>>
          /\ selectedIndex' = 0]_vars
  /\ [][(IsList(currentView) /\ ~isSearching /\ handleKeyPress("Esc")) =>
          /\ currentView' = "main"
          /\ screen' = "main"
          /\ selectedIndex' = 0
          /\ status' = "running"]_vars

\* the main menu, after a search of as many characters as a session types
MenuAfterSearch ==
  /\ currentView = "main"
  /\ selectedIndex = 0
  /\ edits = limits.search
  /\ edits > 1
  /\ status = "running"

(* ---------------------------- keys a view does not handle -------------- *)

\* the keys the current view has no branch for: Left and Right outside the
\* confirmation, Tab outside a form, Ctrl+S outside a form, Ctrl+D outside
\* the form of an existing record, Ctrl+N outside a list, and any sequence
\* that is no key of the interface
Unhandled(key) ==
  \/ key \in {"Left", "Right"} /\ currentView # "confirm-action"
  \/ key = "Tab" /\ ~IsForm(currentView)
  \/ key = "CtrlS" /\ ~IsForm(currentView)
  \/ key = "CtrlD" /\ ~(IsForm(currentView) /\ editingId # NoId)
  \/ key = "CtrlN" /\ ~IsList(currentView)
  \/ key = "Other"

\* C27: a key the current view does not handle is taken and changes
\* nothing: no field of the session state, nothing on the screen (no
\* repaint), no table and no call, no timer.
UnhandledKeyChangesNothing ==
  \A key \in Keys :
    (status = "running" /\ Unhandled(key)) =>
      /\ ENABLED handleKeyPress(key)
      /\ ~ENABLED (handleKeyPress(key) /\ ~UNCHANGED ctl)

\* the stats screen is shown over the main menu, where Left, Right, Tab
\* and the control keys have no branch
StatsScreenOverMenu ==
  /\ currentView = "main"
  /\ screen = "stats"
  /\ selectedIndex = 2
  /\ status = "running"
  /\ Unhandled("CtrlS") /\ Unhandled("Left")

(* ---------------------------- the stats screen ------------------------- *)

\* C28: while the stats screen is displayed, between Enter on menu entry 2
\* and the firing of its timer, a key other than Ctrl+C changes no field of
\* the session state, does not end the session and sets no timer; and when
\* the stats timer fires the view is the main menu with selectedIndex 0.
StatsScreenIgnoresKeys ==
  /\ [][(/\ screen = "stats" /\ Pending("stats") > 0
         /\ \E key \in Keys \ {"CtrlC"} : handleKeyPress(key)) =>
          UNCHANGED <<tui, status, timers>>]_vars
  /\ [][Pending("stats")' < Pending("stats") =>
          currentView' = "main" /\ selectedIndex' = 0]_vars

(* ---------------------------- resize ----------------------------------- *)

\* what is on screen when a view has just been painted
ScreenOf(view) == IF view = "confirm-action" THEN "confirm" ELSE view

\* C29: a resize notification in any view (the main menu, a list, a form
\* or the confirmation) repaints that view and changes no field of the
\* session state.
ResizeRepaintsView ==
  status = "running" =>
    /\ ENABLED Resize
    /\ ~ENABLED (Resize /\ ~(screen' = ScreenOf(currentView) /\ UNCHANGED tui))

(* ---------------------------- the choice of the confirmation ----------- *)

\* C30: in the confirmation Left sets confirmIndex to 0 and Right sets it
\* to 1, whatever it was (the same arrow pressed again changes nothing);
\* the arrows change nothing else of the session state; and confirmIndex
\* is 0 or 1 in every reachable state.
ArrowsSetTheChoice ==
  /\ [](confirmIndex \in {0, 1})
  /\ [][(currentView = "confirm-action" /\ handleKeyPress("Left")) =>
          /\ confirmIndex' = 0
          /\ UNCHANGED <<currentView, previousView, confirmAction, formData,
                         formStep, editingId, inputBuffer, store, timers>>]_vars
  /\ [][(currentView = "confirm-action" /\ handleKeyPress("Right")) =>
          /\ confirmIndex' = 1
          /\ UNCHANGED <<currentView, previousView, confirmAction, formData,
                         formStep, editingId, inputBuffer, store, timers>>]_vars

\* "no" is chosen in the confirmation of a save, which opens on "yes"
SaveChoiceMovedToNo ==
  /\ currentView = "confirm-action"
  /\ confirmAction = "save"
  /\ confirmIndex = 0
  /\ screen = "confirm"

(* ---------------------------- the confirmation is never stuck ---------- *)

\* C31: in every reachable state whose view is the confirmation,
\* confirmAction is save or delete and previousView is the customer or the
\* product form; so Escape there, and Enter on "no", are taken and lead
\* back to that form: the confirmation can always be left.
ConfirmationCanBeLeft ==
  /\ [](currentView = "confirm-action" =>
          /\ confirmAction \in {"save", "delete"}
          /\ IsForm(previousView)
          /\ formStep < Len(formSteps(previousView)))
  /\ []((currentView = "confirm-action" /\ status = "running") =>
          /\ ENABLED handleKeyPress("Esc")
          /\ ~ENABLED (handleKeyPress("Esc") /\ currentView' # previousView)
          /\ confirmIndex = 0 =>
               /\ ENABLED handleKeyPress("Enter")
               /\ ~ENABLED (handleKeyPress("Enter") /\ currentView' # previousView))
  /\ [][(currentView = "confirm-action" /\ currentView' # currentView
           /\ status' = "running") =>
          \/ currentView' = previousView /\ IsForm(currentView')
          \/ IsList(currentView') \/ currentView' = "main"]_vars

\* the delete of a product is waiting for its confirmation, the form
\* having been left on a later step
DeleteConfirmationOpen ==
  /\ currentView = "confirm-action"
  /\ confirmAction = "delete"
  /\ previousView = "product-form"
  /\ formStep > 0
  /\ confirmIndex = 0

(* ---------------------------- one call for one confirmation ------------ *)

\* C32: a confirmed action runs at most once: once Enter on "yes" has made
\* the save or the delete, no key pressed before the message timer fires,
\* a second Enter included, makes another Store create, update or delete
\* call; that is, no Store call is made while a message timer is pending.
ConfirmedActionRunsOnce ==
  [][calls' # calls => Pending("message") = 0]_vars

(* ---------------------------- the list a message returns to ------------ *)

\* the list of a table
listOfTable(table) == IF table = "customers" THEN "customer-list" ELSE "product-list"

\* C33: when a message timer fires, the list it switches to is the list of
\* the entity whose save or delete set that timer, whatever the user has
\* done meanwhile (here: one call was made and its timer is the one
\* pending).
MessageReturnsToItsList ==
  [][(calls = 1 /\ Pending("message") = 1
        /\ Pending("message")' < Pending("message")) =>
       currentView' = listOfTable(call.table)]_vars

(* ---------------------------- typed text and a cancelled save ---------- *)

\* C34: text typed into the current text field of a form survives opening
\* and cancelling the save confirmation.  inputBuffer does not change
\* while the confirmation is open, so: the step that cancels the
\* confirmation of a save, by Escape or by Enter on "no", on a text field,
\* leaves inputBuffer as it was just before Ctrl+S.
TypedTextSurvivesCancel ==
  [][(/\ currentView = "confirm-action"
      /\ confirmAction = "save"
      /\ IsForm(previousView)
      /\ StepAt(formSteps(previousView), formStep).type = "text"
      /\ handleKeyPress("Esc") \/ (confirmIndex = 0 /\ handleKeyPress("Enter")))
       => inputBuffer' = inputBuffer]_vars

(* ---------------------------- Backspace in a list ---------------------- *)

\* C35: Backspace is never taken for a printable character: in a list in
\* navigating mode a Backspace key (either of its two bytes) leaves
\* isSearching, searchFilter, inputBuffer and selectedIndex unchanged.
BackspaceIsNoCharacter ==
  [][(/\ IsList(currentView) /\ ~isSearching
      /\ \E key \in {"Del", "Bs"} : handleKeyPress(key))
       => UNCHANGED <<isSearching, searchFilter, inputBuffer, selectedIndex>>]_vars

(* ---------------------------- the record of a form exists -------------- *)

\* the table behind a form
tableOf(view) == IF view = "customer-form" THEN customers ELSE products

\* C36: with the Store changed through this controller only, in every
\* reachable state whose view is a form with editingId present, the
\* record of that id is in the Store; no form of a record that a confirmed
\* delete removed is reached afterwards.
FormRecordExists ==
  (IsForm(currentView) /\ editingId # NoId) => HasRow(tableOf(currentView), editingId)

(* ---------------------------- what an update stores -------------------- *)

\* C37: after a confirmed save of an existing record that raises no error,
\* every form field of the stored record equals the committed form value,
\* also when a text field was cleared to empty or a numeric field set to 0.
UpdateStoresFormValues ==
  [][(calls' # calls /\ call'.op = "update" /\ call'.found /\ ~call'.threw) =>
       LET steps == formSteps(previousView)
           stored == getById(IF isCustomerOp THEN customers' ELSE products',
                             editingId)
       IN \A i \in 1..Len(steps) :
            stored[steps[i].field] = Get(formData', steps[i].field)]_vars

(* ---------------------------- a delete has a record -------------------- *)

\* C38: Store delete is never called with an absent editingId: in every
\* reachable state whose view is the confirmation of a delete editingId is
\* present, every delete call is made with editingId present, and Ctrl+D
\* in a form with editingId absent is taken and opens no confirmation (it
\* changes nothing).
DeleteHasRecord ==
  /\ []((currentView = "confirm-action" /\ confirmAction = "delete") =>
          editingId # NoId)
  /\ [][(calls' # calls /\ call'.op = "delete") =>
          editingId # NoId /\ call'.id = editingId]_vars
  /\ []((IsForm(currentView) /\ editingId = NoId /\ status = "running") =>
          /\ ENABLED handleKeyPress("CtrlD")
          /\ ~ENABLED (handleKeyPress("CtrlD") /\ ~UNCHANGED ctl))

\* customer 2 was deleted by a call made with its id
DeleteCalledWithId ==
  /\ call.op = "delete"
  /\ call.table = "customers"
  /\ call.id = 2
  /\ call.found
  /\ ~HasRow(customers, 2)

====
